---------------------------- MODULE Spec2Model ----------------------------
(***************************************************************************)
(* A model of the CSV ingestion engine of src/src/csv_loader.rs:           *)
(* CSVLoader::new, calculate_chunk_size, optimize_chunk and load_data      *)
(* (whole-file path and the parallel, chunked path).                       *)
(*                                                                         *)
(* Representation choices.                                                 *)
(*  - A 64-bit signed integer is a tuple of four 16-bit limbs <<a,b,c,d>>  *)
(*    with value a*2^48 + b*2^32 + c*2^16 + d, a in -32768..32767 and      *)
(*    b,c,d in 0..65535, so that the boundaries 2^32 and 2^63 are          *)
(*    representable and order is lexicographic order on the limbs.         *)
(*  - A narrowed cell is the sequence of its stored limbs (an 8-bit cell   *)
(*    is one limb below 256): casting truncates to the stored width and    *)
(*    widening sign- or zero-extends, as the machine does.                 *)
(*  - Sizes of memory and of the file are in MiB; the f64 arithmetic of    *)
(*    calculate_chunk_size is done exactly on these integers.              *)
(*  - The source file is a run-length encoded sequence of rows of one      *)
(*    Int64 column; a run may instead stand for rows that make the parse   *)
(*    or the optimisation of their chunk fail.                             *)
(*  - The chain (0..).into_par_iter().map(..).take_while(..).collect() is   *)
(*    read with the meaning the same chain has on a sequential iterator,   *)
(*    its map closures run by the threads of a pool: items are consumed    *)
(*    in index order, the closures complete in any order.                  *)
(***************************************************************************)
EXTENDS Integers, Sequences, FiniteSets, TLC

VARIABLES
    pc,           \* "start", "failed" (new returned Err), "ready", "whole", "par", "done"
    exists,       \* whether file_path exists on disk
    file,         \* content of the source file (runs of rows)
    file_size,    \* std::fs::metadata(..).len(), in MiB
    total_memory, \* sys.total_memory(), in MiB
    config,       \* LoaderConfig: reserved_ram (MiB), num_workers
    pool_threads, \* threads of the rayon pool that runs into_par_iter
    io_log,       \* I/O operations load_data has performed on the source
    chunk_size,   \* result of calculate_chunk_size
    next_idx,     \* next chunk_idx of the range (0..) to hand out
    stopped,      \* the parallel iterator hands out no further index
    workers,      \* per pool thread: <<chunk_idx>> it is mapping, or Idle
    results,      \* mapped results in completion order: [idx, res]
    result,       \* what new / load_data returned
    arg,          \* input of the pure-function specifications
    ret           \* output of the pure-function specifications

vars == <<pc, exists, file, file_size, total_memory, config, pool_threads,
          io_log, chunk_size, next_idx, stopped, workers, results,
          result, arg, ret>>

None == "None"
Idle == <<>>

\* A null cell; an absent batch (Option::None).
Null == <<>>

Range(s) == {s[i] : i \in 1..Len(s)}

Min2(a, b) == IF a <= b THEN a ELSE b

Max2(a, b) == IF a >= b THEN a ELSE b

\* The element of a singleton set. {F(x) : x \in {e}} evaluates e once and
\* binds x to its value, where LET x == e would evaluate e at every use.
The(S) == CHOOSE x \in S : TRUE

(***************************************************************************)
(* 64-bit integers as limbs                                                *)
(***************************************************************************)
Less(x, y) == \E i \in 1..4 : x[i] < y[i] /\ \A j \in 1..(i-1) : x[j] = y[j]

Leq(x, y) == x = y \/ Less(x, y)

Zero == <<0, 0, 0, 0>>

I64_MAX == <<32767, 65535, 65535, 65535>>

I64_MIN == <<-32768, 0, 0, 0>>

U8_MAX == <<0, 0, 0, 255>>

U16_MAX == <<0, 0, 0, 65535>>

U32_MAX == <<0, 0, 65535, 65535>>

I8_MIN == <<-1, 65535, 65535, 65408>>

I8_MAX == <<0, 0, 0, 127>>

I16_MIN == <<-1, 65535, 65535, 32768>>

I16_MAX == <<0, 0, 0, 32767>>

I32_MIN == <<-1, 65535, 32768, 0>>

I32_MAX == <<0, 0, 32767, 65535>>

DataTypes == {"UInt8", "UInt16", "UInt32", "UInt64",
              "Int8", "Int16", "Int32", "Int64"}

Unsigned(t) == t \in {"UInt8", "UInt16", "UInt32", "UInt64"}

Width(t) == CASE t \in {"UInt8", "Int8"} -> 8
              [] t \in {"UInt16", "Int16"} -> 16
              [] t \in {"UInt32", "Int32"} -> 32
              [] OTHER -> 64

\* The values a type can hold.
InRange(v, t) ==
    CASE t = "UInt8"  -> Leq(Zero, v) /\ Leq(v, U8_MAX)
      [] t = "UInt16" -> Leq(Zero, v) /\ Leq(v, U16_MAX)
      [] t = "UInt32" -> Leq(Zero, v) /\ Leq(v, U32_MAX)
      [] t = "UInt64" -> Leq(Zero, v)
      [] t = "Int8"   -> Leq(I8_MIN, v) /\ Leq(v, I8_MAX)
      [] t = "Int16"  -> Leq(I16_MIN, v) /\ Leq(v, I16_MAX)
      [] t = "Int32"  -> Leq(I32_MIN, v) /\ Leq(v, I32_MAX)
      [] OTHER        -> TRUE

\* The low Width(t) bits of v, as stored limbs.
Truncate(v, t) ==
    CASE Width(t) = 8  -> <<v[4] % 256>>
      [] Width(t) = 16 -> <<v[4]>>
      [] Width(t) = 32 -> <<v[3], v[4]>>
      [] OTHER         -> <<v[1] % 65536, v[2], v[3], v[4]>>

\* Series::cast (non-strict): a value the target type cannot hold becomes null.
Cast(v, t) == IF InRange(v, t) THEN Truncate(v, t) ELSE Null

\* Reading a stored cell back as a 64-bit signed integer.
Widen(s, t) ==
    IF s = Null THEN Null
    ELSE CASE t = "UInt8"  -> <<0, 0, 0, s[1]>>
           [] t = "UInt16" -> <<0, 0, 0, s[1]>>
           [] t = "UInt32" -> <<0, 0, s[1], s[2]>>
           [] t = "Int8"   -> IF s[1] >= 128
                              THEN <<-1, 65535, 65535, 65280 + s[1]>>
                              ELSE <<0, 0, 0, s[1]>>
           [] t = "Int16"  -> IF s[1] >= 32768
                              THEN <<-1, 65535, 65535, s[1]>>
                              ELSE <<0, 0, 0, s[1]>>
           [] t = "Int32"  -> IF s[1] >= 32768
                              THEN <<-1, 65535, s[1], s[2]>>
                              ELSE <<0, 0, s[1], s[2]>>
           [] OTHER        -> <<IF s[1] >= 32768 THEN s[1] - 65536 ELSE s[1],
                                s[2], s[3], s[4]>>

(***************************************************************************)
(* optimize_chunk, Int64 arm                                               *)
(***************************************************************************)
\* column.min::<i64>().unwrap_or(i64::MAX)
ColumnMin(col) ==
    IF col = <<>> THEN I64_MAX
    ELSE CHOOSE m \in Range(col) : \A x \in Range(col) : Leq(m, x)

\* column.max::<i64>().unwrap_or(i64::MIN)
ColumnMax(col) ==
    IF col = <<>> THEN I64_MIN
    ELSE CHOOSE m \in Range(col) : \A x \in Range(col) : Leq(x, m)

NewTypeOffByOne(min, max) ==
    IF Leq(Zero, min)
    THEN IF Leq(max, <<0, 0, 0, 256>>) THEN "UInt8"
         ELSE IF Leq(max, U16_MAX) THEN "UInt16"
         ELSE IF Leq(max, U32_MAX) THEN "UInt32"
         ELSE "UInt64"
    ELSE IF Leq(I8_MIN, min) /\ Leq(max, I8_MAX) THEN "Int8"
         ELSE IF Leq(I16_MIN, min) /\ Leq(max, I16_MAX) THEN "Int16"
         ELSE IF Leq(I32_MIN, min) /\ Leq(max, I32_MAX) THEN "Int32"
         ELSE "Int64"

\* let new_type = if min >= 0 { ... } else { ... }
NewType(min, max) ==
    IF Leq(Zero, min)
    THEN IF Leq(max, U8_MAX) THEN "UInt8"
         ELSE IF Leq(max, U16_MAX) THEN "UInt16"
         ELSE IF Leq(max, U32_MAX) THEN "UInt32"
         ELSE "UInt64"
    ELSE IF Leq(I8_MIN, min) /\ Leq(max, I8_MAX) THEN "Int8"
         ELSE IF Leq(I16_MIN, min) /\ Leq(max, I16_MAX) THEN "Int16"
         ELSE IF Leq(I32_MIN, min) /\ Leq(max, I32_MAX) THEN "Int32"
         ELSE "Int64"

\* optimize_chunk on a frame whose one column is Int64: the column is cast
\* to the type chosen from its min and max.
OptimizeChunk(col) ==
    The({ [dtype |-> t, cells |-> [i \in 1..Len(col) |-> Cast(col[i], t)]]
          : t \in {NewType(ColumnMin(col), ColumnMax(col))} })

(***************************************************************************)
(* calculate_chunk_size                                                    *)
(***************************************************************************)
MinChunkRows == 1000

DefaultReservedRam == 2048

DefaultNumWorkers == 7

\* (num / den) as usize, for the f64 quotient of two exact values: a negative
\* quotient, -inf and NaN all cast to 0. (A positive numerator over 0 would
\* cast to usize::MAX; the caller never produces it, since a zero estimate
\* with positive available memory takes the whole-file branch.)
QuotientAsUsize(num, den) ==
    IF num <= 0 \/ den = 0 THEN 0 ELSE num \div den

CalculateChunkSizeNoFloor(fsize, total, reserved) ==
    LET available == total - reserved
    IN  IF 3 * fsize < 2 * available
        THEN 0
        ELSE QuotientAsUsize(available * 262144 * 2, 3 * fsize)

\* available_ram_gb = total_ram_gb - reserved_ram_gb; the estimate is 1.5 x
\* the file size, so estimate < available is 3*fsize < 2*available and
\* (available * 0.25 * 1024 * 1024) / estimate is available*262144*2/(3*fsize).
CalculateChunkSize(fsize, total, reserved) ==
    LET available == total - reserved
    IN  IF 3 * fsize < 2 * available
        THEN 0
        ELSE Max2(QuotientAsUsize(available * 262144 * 2, 3 * fsize),
                  MinChunkRows)

(***************************************************************************)
(* The source file and the chunked reader                                  *)
(***************************************************************************)
RECURSIVE TotalRows(_)
TotalRows(f) == IF f = <<>> THEN 0 ELSE Head(f).n + TotalRows(Tail(f))

\* The rows [lo, hi) of f, as runs; start is the row index of f's first run.
RECURSIVE SliceFrom(_, _, _, _)
SliceFrom(f, start, lo, hi) ==
    IF f = <<>> THEN <<>>
    ELSE LET r == Head(f)
             a == Max2(start, lo)
             b == Min2(start + r.n, hi)
         IN  (IF a < b THEN <<[r EXCEPT !.n = b - a]>> ELSE <<>>)
             \o SliceFrom(Tail(f), start + r.n, lo, hi)

Slice(f, lo, hi) == SliceFrom(f, 0, lo, hi)

\* One batch of the reader created with_chunk_size(size), from the cursor.
NextBatchUnclamped(total, size, cursor) ==
    IF cursor >= total THEN Null
    ELSE <<[lo |-> cursor, hi |-> cursor + size]>>

NextBatch(total, size, cursor) ==
    IF cursor >= total THEN Null
    ELSE <<[lo |-> cursor, hi |-> Min2(cursor + size, total)]>>

\* reader.nth(n): n batches are read and dropped, the next one is returned.
ReaderNth(total, size, cursor, n) ==
    LET nth[c \in Nat, k \in Nat] ==
            LET b == NextBatch(total, size, c)
            IN  IF b = Null THEN Null
                ELSE IF k = 0 THEN b
                ELSE nth[b[1].hi, k - 1]
    IN  nth[cursor, n]

NoMoreChunks == [kind |-> "Err", err |-> "ProcessingError", msg |-> "No more chunks"]

ProcessingError(m) == [kind |-> "Err", err |-> "ProcessingError", msg |-> m]

HasKind(rows, k) == \E i \in 1..Len(rows) : rows[i].kind = k

\* Parsing the rows of one frame and optimize_chunk on it: Ok(frame) or the
\* error of the first failing stage.
ParseAndOptimize(rows, lo, hi) ==
    IF HasKind(rows, "parse") THEN ProcessingError("parse")
    ELSE IF HasKind(rows, "optimize") THEN ProcessingError("optimize")
    ELSE The({ [kind |-> "Ok",
                frag |-> [lo |-> lo, hi |-> hi, dtype |-> o.dtype,
                          runs |-> [i \in 1..Len(rows) |->
                                      [n |-> rows[i].n, cell |-> o.cells[i]]]]]
               : o \in {OptimizeChunk([i \in 1..Len(rows) |-> rows[i].v])} })

\* match reader.nth(chunk_idx) { Some(chunk_result) => .., None => Err(..) }
MatchBatch(f, b) ==
    IF b = Null THEN NoMoreChunks
    ELSE The({ ParseAndOptimize(rows, b[1].lo, b[1].hi)
               : rows \in {Slice(f, b[1].lo, b[1].hi)} })

\* The closure of .map(|chunk_idx| ...).
MapChunk(f, size, idx) ==
    The({ MatchBatch(f, b) : b \in {ReaderNth(TotalRows(f), size, 0, idx)} })

(***************************************************************************)
(* Collection of the mapped results and concatenation                      *)
(***************************************************************************)
Ok(r) == r.kind = "Ok"

CompletionOrder(rs) == [i \in 1..Len(rs) |-> rs[i].res]

\* The parallel iterator is indexed by chunk_idx: its items reach take_while
\* and collect in index order, whatever order the workers finished in.
IndexOrder(rs) ==
    [i \in 1..Len(rs) |->
        rs[CHOOSE k \in 1..Len(rs) : rs[k].idx = i - 1].res]

\* .take_while(|result| !matches!(result, Err(ProcessingError(e)) if e == "No more chunks"))
RECURSIVE TakeWhile(_)
TakeWhile(items) ==
    IF items = <<>> \/ Head(items) = NoMoreChunks THEN <<>>
    ELSE <<Head(items)>> \o TakeWhile(Tail(items))

CollectIgnoringErrors(items) ==
    [kind |-> "Ok", chunks |-> [i \in 1..Len(SelectSeq(items, Ok)) |->
                                   SelectSeq(items, Ok)[i].frag]]

\* .collect::<Result<Vec<DataFrame>, LoaderError>>(): an error among the
\* items makes the whole collection that error.
Collect(items) ==
    IF \E i \in 1..Len(items) : ~Ok(items[i])
    THEN items[CHOOSE i \in 1..Len(items) :
                 ~Ok(items[i]) /\ \A j \in 1..(i-1) : Ok(items[j])]
    ELSE [kind |-> "Ok", chunks |-> [i \in 1..Len(items) |-> items[i].frag]]

Part(frag) == [lo |-> frag.lo, hi |-> frag.hi, runs |-> frag.runs]

\* concat(chunks, true): frames are stacked in slice order; an empty slice
\* and frames whose column types differ are errors.
Concat(chunks) ==
    IF chunks = <<>> THEN ProcessingError("empty container")
    ELSE IF \E i \in 1..Len(chunks) : chunks[i].dtype # chunks[1].dtype
    THEN ProcessingError("data types don't match")
    ELSE [kind |-> "Ok",
          table |-> [dtype |-> chunks[1].dtype,
                     parts |-> [i \in 1..Len(chunks) |-> Part(chunks[i])]]]

\* let chunks = (0..).into_par_iter().map(..).take_while(..).collect();
\* concat(chunks?.as_slice(), true)
Aggregate(rs) ==
    The({ IF Ok(chunks) THEN Concat(chunks.chunks) ELSE chunks
          : chunks \in { Collect(items) : items \in {TakeWhile(IndexOrder(rs))} } })

\* std::fs::metadata(&self.file_path)?
MetadataAsInvalidPath(ex) == IF ex THEN "Ok" ELSE "InvalidPath"

Metadata(ex) == IF ex THEN "Ok" ELSE "IoError"

(***************************************************************************)
(* Inputs                                                                  *)
(***************************************************************************)
MaxRuns == 3

MaxThreads == 2

MaxLen == 2

RunLens == {1000}

FileValues == {<<0, 0, 0, 1>>, <<0, 0, 0, 300>>}

Runs == [n : RunLens, kind : {"val"}, v : FileValues]
        \cup [n : RunLens, kind : {"parse", "optimize"}, v : {Zero}]

SeqsUpTo(S, n) == UNION {[1..k -> S] : k \in 0..n}

Files == SeqsUpTo(Runs, MaxRuns)

FileSizes == {1, 145}

TotalMemories == {0, 2049, 4095}

Configs == [reserved_ram : {DefaultReservedRam},
            num_workers : {1, DefaultNumWorkers}]

Threads == 1..pool_threads

Busy == {w \in Threads : workers[w] # Idle}

(***************************************************************************)
(* CSVLoader::new and load_data                                            *)
(***************************************************************************)
InitWith(files, configs) ==
    /\ pc = "start"
    /\ exists = TRUE
    /\ file \in files
    /\ file_size \in FileSizes
    /\ total_memory \in TotalMemories
    /\ config \in configs
    /\ pool_threads \in 1..MaxThreads
    /\ io_log = <<>>
    /\ chunk_size = None
    /\ next_idx = 0
    /\ stopped = FALSE
    /\ workers = [w \in 1..pool_threads |-> Idle]
    /\ results = <<>>
    /\ result = None
    /\ arg = None
    /\ ret = None

Init == InitWith(Files, Configs)

\* The file is removed by another process, before load_data is called.
Remove ==
    /\ pc \in {"start", "ready"}
    /\ exists
    /\ exists' = FALSE
    /\ UNCHANGED <<pc, file, file_size, total_memory, config, pool_threads,
                   io_log, chunk_size, next_idx, stopped, workers, results,
                   result, arg, ret>>

New ==
    /\ pc = "start"
    /\ IF ~exists
       THEN /\ result' = [kind |-> "Err", err |-> "InvalidPath", msg |-> "path"]
            /\ pc' = "failed"
       ELSE /\ result' = result
            /\ pc' = "ready"
    /\ UNCHANGED <<exists, file, file_size, total_memory, config, pool_threads,
                   io_log, chunk_size, next_idx, stopped, workers, results,
                   arg, ret>>

\* load_data up to the choice of the path: metadata, calculate_chunk_size.
LoadData ==
    /\ pc = "ready"
    /\ io_log' = Append(io_log, "metadata")
    /\ IF Metadata(exists) # "Ok"
       THEN /\ result' = [kind |-> "Err", err |-> Metadata(exists), msg |-> "metadata"]
            /\ pc' = "done"
            /\ UNCHANGED chunk_size
       ELSE /\ chunk_size' = CalculateChunkSize(file_size, total_memory,
                                                config.reserved_ram)
            /\ pc' = IF chunk_size' = 0 THEN "whole" ELSE "par"
            /\ UNCHANGED result
    /\ UNCHANGED <<exists, file, file_size, total_memory, config, pool_threads,
                   next_idx, stopped, workers, results, arg, ret>>

\* chunk_size == 0: the whole file is read, optimized and returned.
LoadWhole ==
    /\ pc = "whole"
    /\ io_log' = Append(io_log, "read")
    /\ \E r \in {ParseAndOptimize(file, 0, TotalRows(file))} :
           result' = IF Ok(r)
                     THEN [kind |-> "Ok",
                           table |-> [dtype |-> r.frag.dtype,
                                      parts |-> <<Part(r.frag)>>]]
                     ELSE r
    /\ pc' = "done"
    /\ UNCHANGED <<exists, file, file_size, total_memory, config, pool_threads,
                   chunk_size, next_idx, stopped, workers, results, arg, ret>>

MayIssueAlways(st) == TRUE

\* The iterator hands out indices until take_while or collect has ended it.
MayIssue(st) == ~st

\* A free thread of the pool takes the next index of (0..).
Issue(w) ==
    /\ pc = "par"
    /\ MayIssue(stopped)
    /\ workers[w] = Idle
    /\ workers' = [workers EXCEPT ![w] = <<next_idx>>]
    /\ next_idx' = next_idx + 1
    /\ UNCHANGED <<pc, exists, file, file_size, total_memory, config,
                   pool_threads, io_log, chunk_size, stopped, results,
                   result, arg, ret>>

\* A thread finishes the map closure for its index. The sentinel ends
\* take_while and an error ends collect: either stops the iteration.
Complete(w) ==
    /\ pc = "par"
    /\ workers[w] # Idle
    /\ \E r \in {MapChunk(file, chunk_size, workers[w][1])} :
           /\ results' = Append(results, [idx |-> workers[w][1], res |-> r])
           /\ stopped' = (stopped \/ ~Ok(r))
    /\ io_log' = Append(io_log, "read")
    /\ workers' = [workers EXCEPT ![w] = Idle]
    /\ UNCHANGED <<pc, exists, file, file_size, total_memory, config,
                   pool_threads, chunk_size, next_idx, result, arg, ret>>

\* All threads are done: the results are collected, concatenated, returned.
Finish ==
    /\ pc = "par"
    /\ stopped
    /\ Busy = {}
    /\ result' = Aggregate(results)
    /\ pc' = "done"
    /\ UNCHANGED <<exists, file, file_size, total_memory, config, pool_threads,
                   io_log, chunk_size, next_idx, stopped, workers, results,
                   arg, ret>>

Next ==
    \/ Remove
    \/ New
    \/ LoadData
    \/ LoadWhole
    \/ \E w \in Threads : Issue(w)
    \/ \E w \in Threads : Complete(w)
    \/ Finish

Spec == Init /\ [][Next]_vars

ParStep == (\E w \in Threads : Issue(w)) \/ (\E w \in Threads : Complete(w)) \/ Finish

\* Files of one value, and the default configuration: what termination can
\* depend on is the number of chunks and where parsing or optimizing fails.
FairFiles == {f \in Files : \A i \in 1..Len(f) : f[i].v \in {Zero, <<0, 0, 0, 1>>}}

InitFair ==
    InitWith(FairFiles, {c \in Configs : c.num_workers = DefaultNumWorkers})

\* The pool's threads run their tasks to completion.
FairSpec == InitFair /\ [][Next]_vars /\ WF_vars(ParStep)

(***************************************************************************)
(* optimize_chunk and calculate_chunk_size as functions of their inputs    *)
(***************************************************************************)
BoundaryValues ==
    { I64_MIN, <<-1, 65535, 32767, 65535>>, I32_MIN,
      <<-1, 65535, 65535, 32767>>, I16_MIN, <<-1, 65535, 65535, 65407>>,
      I8_MIN, <<-1, 65535, 65535, 65535>>, Zero, <<0, 0, 0, 1>>, I8_MAX,
      <<0, 0, 0, 128>>, U8_MAX, <<0, 0, 0, 256>>, I16_MAX,
      <<0, 0, 0, 32768>>, U16_MAX, <<0, 0, 1, 0>>, I32_MAX,
      <<0, 0, 32768, 0>>, U32_MAX, <<0, 1, 0, 0>>, I64_MAX }

Columns == SeqsUpTo(BoundaryValues, MaxLen)

PlanInputs == [file_size : {0, 1, 100, 1000, 4000},
               total_memory : {0, 1024, 2048, 2049, 3000, 4095},
               reserved_ram : {0, DefaultReservedRam, 4096}]

NoLoad ==
    /\ exists = TRUE
    /\ file = <<>>
    /\ file_size = 0
    /\ total_memory = 0
    /\ config = [reserved_ram |-> DefaultReservedRam,
                 num_workers |-> DefaultNumWorkers]
    /\ pool_threads = 1
    /\ io_log = <<>>
    /\ chunk_size = None
    /\ next_idx = 0
    /\ stopped = FALSE
    /\ workers = <<Idle>>
    /\ results = <<>>
    /\ result = None

InitOpt == pc = "opt" /\ arg \in Columns /\ ret = None /\ NoLoad

Optimize ==
    /\ pc = "opt"
    /\ ret' = OptimizeChunk(arg)
    /\ pc' = "opt_done"
    /\ UNCHANGED <<exists, file, file_size, total_memory, config, pool_threads,
                   io_log, chunk_size, next_idx, stopped, workers, results,
                   result, arg>>

SpecOpt == InitOpt /\ [][Optimize]_vars

InitPlan == pc = "plan" /\ arg \in PlanInputs /\ ret = None /\ NoLoad

Plan ==
    /\ pc = "plan"
    /\ ret' = CalculateChunkSize(arg.file_size, arg.total_memory, arg.reserved_ram)
    /\ pc' = "plan_done"
    /\ UNCHANGED <<exists, file, file_size, total_memory, config, pool_threads,
                   io_log, chunk_size, next_idx, stopped, workers, results,
                   result, arg>>

SpecPlan == InitPlan /\ [][Plan]_vars

(***************************************************************************)
(* Properties                                                              *)
(***************************************************************************)
\* load_data returned from its partitioned path.
PartitionedDone == pc = "done" /\ results # <<>>

\* The rows a part of the returned table holds, read back as 64-bit integers.
PartRows(part, dtype) ==
    [j \in 1..Len(part.runs) |->
        [n |-> part.runs[j].n, kind |-> "val",
         v |-> Widen(part.runs[j].cell, dtype)]]

HoldsSourceRows(part, dtype) == PartRows(part, dtype) = Slice(file, part.lo, part.hi)

FileHasFault == HasKind(file, "parse") \/ HasKind(file, "optimize")

\* C1: a successful partitioned load yields fragments P0..Pk where Pi holds
\* exactly the source rows [i*C, min((i+1)*C, total_rows)): all rows are
\* covered once and only the last fragment may be shorter than C.
C1_FragmentsCoverFile ==
    (PartitionedDone /\ result.kind = "Ok") =>
        LET parts == result.table.parts
            total == TotalRows(file)
        IN  /\ Len(parts) * chunk_size >= total
            /\ (Len(parts) - 1) * chunk_size < total
            /\ \A i \in 1..Len(parts) :
                 /\ parts[i].lo = (i - 1) * chunk_size
                 /\ parts[i].hi = Min2(i * chunk_size, total)
                 /\ HoldsSourceRows(parts[i], result.table.dtype)

C1_Witness ==
    /\ PartitionedDone
    /\ result.kind = "Ok"
    /\ Len(result.table.parts) = 3
    /\ result.table.parts[3].hi - result.table.parts[3].lo < chunk_size

\* C2: whatever order the workers complete in, the rows of the returned table
\* are in source-file order: the parts are consecutive, ascending row ranges
\* starting at row 0, each holding the source rows of its range.
C2_RowsInSourceOrder ==
    (PartitionedDone /\ result.kind = "Ok") =>
        LET parts == result.table.parts
        IN  /\ parts[1].lo = 0
            /\ \A i \in 1..Len(parts) :
                 /\ parts[i].lo < parts[i].hi
                 /\ HoldsSourceRows(parts[i], result.table.dtype)
            /\ \A i \in 1..(Len(parts) - 1) : parts[i].hi = parts[i + 1].lo

\* A later partition completed before an earlier one.
C2_Witness ==
    /\ PartitionedDone
    /\ result.kind = "Ok"
    /\ \E i, j \in 1..Len(results) :
         i < j /\ results[i].idx > results[j].idx /\ Ok(results[i].res)

\* C3: if parsing or optimizing any partition fails, the partitioned load
\* returns an error, never a table, whatever the completion order.
C3_FailFast ==
    (PartitionedDone /\ FileHasFault) => result.kind = "Err"

\* The middle partition of three failed after the other two had completed.
C3_Witness ==
    /\ PartitionedDone
    /\ result.kind = "Err"
    /\ Len(results) >= 3
    /\ results[1].idx = 0 /\ Ok(results[1].res)
    /\ results[2].idx = 2 /\ Ok(results[2].res)
    /\ results[3].idx = 1 /\ ~Ok(results[3].res)

\* C4: when the partitions of a clean file were narrowed to different types,
\* aggregation succeeds and the table holds every source row unchanged.
C4_WidensOnAggregate ==
    (/\ PartitionedDone
     /\ ~FileHasFault
     /\ \E i, j \in 1..Len(results) :
          /\ Ok(results[i].res) /\ Ok(results[j].res)
          /\ results[i].res.frag.dtype # results[j].res.frag.dtype)
    => /\ result.kind = "Ok"
       /\ \A i \in 1..Len(result.table.parts) :
            HoldsSourceRows(result.table.parts[i], result.table.dtype)

\* C5: at most num_workers partitions are being parsed or optimized at once.
C5_BoundedByNumWorkers == Cardinality(Busy) <= config.num_workers

\* C6: a non-zero chunk size is at least the minimum chunk size, and with no
\* available memory (total - reserved <= 0) the result is exactly the minimum.
C6_ChunkSizeFloor ==
    pc = "plan_done" =>
        /\ ret # 0 => ret >= MinChunkRows
        /\ arg.total_memory - arg.reserved_ram <= 0 => ret = MinChunkRows

C6_Witness ==
    /\ pc = "plan_done"
    /\ arg.total_memory - arg.reserved_ram <= 0
    /\ arg.total_memory > 0
    /\ ret = MinChunkRows

\* C7: when the memory probe reports 0 bytes, load_data takes the whole-file
\* path (chunk size 0).
C7_UnknownMemoryLoadsWhole ==
    (pc \in {"whole", "par"} /\ total_memory = 0) => chunk_size = 0

\* C8: the type optimize_chunk chooses holds every value of the column
\* (widen(narrow(v)) = v), is unsigned exactly when no value is negative, and
\* is the narrowest type of its signedness that holds all values.
C8_NarrowingRoundTrip ==
    pc = "opt_done" =>
        /\ \A i \in 1..Len(arg) : Widen(ret.cells[i], ret.dtype) = arg[i]
        /\ Unsigned(ret.dtype) <=> (\A i \in 1..Len(arg) : Leq(Zero, arg[i]))
        /\ \A t \in DataTypes :
             (Unsigned(t) = Unsigned(ret.dtype) /\ Width(t) < Width(ret.dtype))
             => \E i \in 1..Len(arg) : ~InRange(arg[i], t)

\* A column whose min is -128 and whose max is 128: Int16.
C8_Witness ==
    /\ pc = "opt_done"
    /\ arg = <<I8_MIN, <<0, 0, 0, 128>>>>
    /\ ret.dtype = "Int16"

\* C9 as stated: load_data on a path that does not exist returns InvalidPath
\* and has made no metadata query or read before finding that out.
C9_LoadValidatesPath ==
    (pc = "done" /\ ~exists) => (result.err = "InvalidPath" /\ io_log = <<>>)

\* C9 amended: the existence check is CSVLoader::new's, which returns
\* InvalidPath without any I/O on the source; load_data on a path that no
\* longer exists fails with IoError at its first operation, the metadata
\* query, and reads nothing.
C9_NewValidatesPath ==
    /\ pc = "failed" => (~exists /\ result.err = "InvalidPath" /\ io_log = <<>>)
    /\ (pc = "done" /\ ~exists) =>
           (result.kind = "Err" /\ result.err = "IoError" /\ io_log = <<"metadata">>)
    /\ (pc = "done" /\ result.kind = "Err") => result.err # "InvalidPath"

C9_Witness == pc = "done" /\ ~exists /\ result.err = "IoError"

\* C10: under fair scheduling of the workers a partitioned load returns, and
\* once a worker has got the sentinel (or an error) no further index is issued.
C10_Terminates ==
    /\ (pc = "par") ~> (pc = "done")
    /\ [][stopped => next_idx' = next_idx]_vars

\* Several workers ran past the end of the file before the load returned.
C10_Witness ==
    /\ PartitionedDone
    /\ Cardinality({i \in 1..Len(results) : results[i].res = NoMoreChunks}) >= 2
    /\ next_idx = Len(results)

====
